---- MODULE Spec2Model ----
(***************************************************************************)
(* A model of src/app.py: the query-log aggregation (calculate_stats and   *)
(* parse_timestamp), the query-log loader (load_ah_data), the statistics   *)
(* loader and VIN lookup (load_vin_data, show_vin_search), the statistics  *)
(* portal (show_ah_stat_portal) and the login gate (check_password, main). *)
(*                                                                         *)
(* Python strings whose characters the code inspects are sequences of      *)
(* tokens; strings the code only compares and copies are TLA+ strings.     *)
(* An insertion-ordered dict or Counter is a sequence of entries in        *)
(* insertion order.                                                        *)
(***************************************************************************)
EXTENDS Integers, Sequences, FiniteSets, TLC

VARIABLES
    phase,        \* which function has run: "input", then the function's name
    data,         \* calculate_stats: the argument `data`
    org_name,     \* calculate_stats: the argument `org_name`
    d_from,       \* calculate_stats: the argument `d_from`
    d_to,         \* calculate_stats: the argument `d_to`
    stats,        \* calculate_stats: the returned (export_rows, per_day, top_vins)
    vinDir,       \* data/: the *_statistika.csv files and Organizations.xlsx
    vinLoad,      \* load_vin_data: how the call ended and what it returned
    vin_input,    \* show_vin_search: the text box, the buttons, the last VIN
    page,         \* show_vin_search: how the run ended and what it showed
    ahFiles,      \* load_ah_data: the selected files, in sorted(selected_files) order
    ahLoad,       \* load_ah_data: the returned (data, org_names, min_date, max_date)
    dataDir,      \* data/: the entries list_data_files() goes through, sorted by name
    portal_input, \* show_ah_stat_portal: what the user chose in the widgets
    portal,       \* show_ah_stat_portal: how the run ended and what it did
    secrets,      \* st.secrets: the secrets file and its [auth] section
    session_state,\* st.session_state of the browser session
    main_input,   \* main: the login form and the sidebar radio of the run
    main_run      \* main: how the run ended and which view it entered

statsVars == <<data, org_name, d_from, d_to, stats>>
vinVars == <<vinDir, vinLoad, vin_input, page>>
ahVars == <<ahFiles, ahLoad>>
portalVars == <<dataDir, portal_input, portal>>
mainVars == <<secrets, session_state, main_input, main_run>>
vars == <<phase, statsVars, vinVars, ahVars, portalVars, mainVars>>

\* ------------------------------------------------------------------ bounds

MaxRecs == 3      \* longest `data` given to calculate_stats
MaxDay == 2       \* calendar days are 1..MaxDay (day numbers stand for dates)
MaxTopRecs == 7   \* longest `data` of the top-VIN runs
MaxVins == 6      \* distinct VINs of the top-VIN runs
MaxStatFiles == 2 \* most *_statistika.csv files in data/
MaxAhFiles == 3   \* most query-log files selected for load_ah_data

\* The 5 of vin_counter.most_common(5).
TopN == 5
\* The 9 of .str.zfill(9) on CUSTOMERID and CODE.
CodeWidth == 9
\* The 2 of .str.zfill(2) on MANUFACTURERCODE.
MfrWidth == 2

\* Python's None, among values that are otherwise TLA+ strings.
NoneVal == "<None>"

\* ------------------------------------------------- timestamp strings (tokens)

Tok(k, v) == [k |-> k, v |-> v]

\* "YYYY-MM-DDTHH:MM:SS" of day d, time of day t
TsPlainAt(d, t) == <<Tok("date", d), Tok("T", 0), Tok("time", t)>>
\* the same at the time of day 0
TsPlain(d) == TsPlainAt(d, 0)
\* the same with a trailing "Z"
TsZ(d) == TsPlain(d) \o <<Tok("Z", 0)>>
\* the same with a trailing UTC offset of o minutes, "+HHMM"
TsOff(d, o) == TsPlain(d) \o <<Tok("off", o)>>
\* the same with a leading blank
TsBlank(d) == <<Tok("ws", 0)>> \o TsPlain(d)
\* a text no format matches
TsJunk == <<Tok("junk", 0)>>
\* item.get("time_stamp") of a record without the field
TsNone == <<Tok("None", 0)>>

IsWs(t) == t.k = "ws"

RECURSIVE LStrip(_)
LStrip(s) == IF s # <<>> /\ IsWs(Head(s)) THEN LStrip(Tail(s)) ELSE s

RECURSIVE RStrip(_)
RStrip(s) ==
    IF s # <<>> /\ IsWs(s[Len(s)]) THEN RStrip(SubSeq(s, 1, Len(s) - 1)) ELSE s

\* str.strip()
Strip(s) == RStrip(LStrip(s))

\* str.endswith("Z")
EndsWithZ(s) == s # <<>> /\ s[Len(s)].k = "Z"

\* datetime.strptime(s, "%Y-%m-%dT%H:%M:%S"): the text is exactly date, T, time
MatchesNaive(s) ==
    /\ Len(s) = 3
    /\ s[1].k = "date"
    /\ s[2].k = "T"
    /\ s[3].k = "time"

\* datetime.strptime(s, "%Y-%m-%dT%H:%M:%S%z"): as above, then an offset
\* (%z reads +HHMM and, since Python 3.7, a literal Z as UTC)
MatchesAware(s) ==
    /\ Len(s) = 4
    /\ MatchesNaive(SubSeq(s, 1, 3))
    /\ s[4].k \in {"off", "Z"}

ParseError == [ok |-> FALSE, date |-> 0, utcoffset |-> 0, aware |-> FALSE]

Parsed(s, aware) ==
    [ok |-> TRUE,
     date |-> s[1].v,
     utcoffset |-> IF aware /\ s[4].k = "off" THEN s[4].v ELSE 0,
     aware |-> aware]

\* parse_timestamp: the three formats in order; ok = FALSE is the ValueError
parse_timestamp(ts_str) ==
    LET s == Strip(IF ts_str = TsNone THEN <<>> ELSE ts_str) IN
    IF MatchesAware(s) THEN Parsed(s, TRUE)
    ELSE IF MatchesNaive(s) THEN Parsed(s, FALSE)
    ELSE IF EndsWithZ(s) /\ MatchesNaive(SubSeq(s, 1, Len(s) - 1))
         THEN Parsed(SubSeq(s, 1, Len(s) - 1), FALSE)
    ELSE ParseError

\* datetime.date(): the calendar date as written, whatever the offset
DateOf(ts) == ts.date

\* `if not ts_str`: None and "" are falsy
TsFalsy(ts_str) == ts_str = TsNone \/ ts_str = <<>>

\* `if qvin`: None and "" are falsy
Truthy(v) == v # NoneVal /\ v # ""

\* ------------------------------------------------------------ Counter, dict

\* collections.Counter / dict: entries [k, n] in insertion order
RECURSIVE CounterIndex(_, _)
CounterIndex(c, k) ==
    IF c = <<>> THEN 0
    ELSE IF c[Len(c)].k = k /\ CounterIndex(SubSeq(c, 1, Len(c) - 1), k) = 0
         THEN Len(c)
    ELSE CounterIndex(SubSeq(c, 1, Len(c) - 1), k)

\* counter[k], 0 for a key never counted
CounterGet(c, k) == IF CounterIndex(c, k) = 0 THEN 0 ELSE c[CounterIndex(c, k)].n

\* counter[k] += 1
CounterInc(c, k) ==
    IF CounterIndex(c, k) = 0
    THEN Append(c, [k |-> k, n |-> 1])
    ELSE [c EXCEPT ![CounterIndex(c, k)].n = @ + 1]

\* a place ahead of the equals: equal counts come out last-met first
RECURSIVE InsertDescBeforeEquals(_, _)
InsertDescBeforeEquals(sorted, e) ==
    IF sorted = <<>> THEN <<e>>
    ELSE IF Head(sorted).n > e.n
         THEN <<Head(sorted)>> \o InsertDescBeforeEquals(Tail(sorted), e)
    ELSE <<e>> \o sorted

\* the place of e in a list kept in descending order of n, behind its equals
RECURSIVE InsertDesc(_, _)
InsertDesc(sorted, e) ==
    IF sorted = <<>> THEN <<e>>
    ELSE IF Head(sorted).n >= e.n THEN <<Head(sorted)>> \o InsertDesc(Tail(sorted), e)
    ELSE <<e>> \o sorted

\* sorted(items, key=count, reverse=True): stable, equal counts keep their order
RECURSIVE SortDesc(_)
SortDesc(items) ==
    IF items = <<>> THEN <<>>
    ELSE InsertDesc(SortDesc(SubSeq(items, 1, Len(items) - 1)), items[Len(items)])

\* Counter.most_common(n)
most_common(c, n) ==
    LET s == SortDesc(c) IN SubSeq(s, 1, IF Len(s) < n THEN Len(s) ELSE n)

\* ----------------------------------------------------------- calculate_stats

\* `key in unique_records`
RECURSIVE HasKey(_, _)
HasKey(unique_records, key) ==
    /\ unique_records # <<>>
    /\ \/ Head(unique_records).key = key
       \/ HasKey(Tail(unique_records), key)

\* the export row built from an item
RowOf(item) ==
    [user_id |-> item.user_id,
     organization_id |-> item.organization_id,
     organization_name |-> item.organization_name,
     query_vin |-> item.query_vin,
     time_stamp |-> item.time_stamp]

\* `if org_name and item.get("organization_name") != org_name: continue`
OrgFilterDrops(item, org) == org # "" /\ item.organization_name # org

\* a date filter that leaves out the day d_to
DateFilterExclusiveTo(d, from, to) == from <= d /\ d < to

\* `if not (d_from <= d <= d_to): continue`
DateFilterKeeps(d, from, to) == from <= d /\ d <= to

\* does the item reach the deduplication (lines 198-212 not taking `continue`)
Passes(item, org, from, to) ==
    /\ ~OrgFilterDrops(item, org)
    /\ ~TsFalsy(item.time_stamp)
    /\ parse_timestamp(item.time_stamp).ok
    /\ DateFilterKeeps(DateOf(parse_timestamp(item.time_stamp)), from, to)

\* a key on the parsed instant instead of the raw text
KeyOfParsedInstant(item) ==
    [vin |-> item.query_vin, ts |-> TsPlain(DateOf(parse_timestamp(item.time_stamp)))]

\* the key the code deduplicates on: (qvin, ts_str)
KeyOf(item) == [vin |-> item.query_vin, ts |-> item.time_stamp]

\* `if key not in unique_records`
IsNewKey(unique_records, key) == ~HasKey(unique_records, key)

\* a loop body that counts the day before it looks for the key
StatsStepCountsDuplicates(acc, item, org, from, to) ==
    IF ~Passes(item, org, from, to) THEN acc
    ELSE
        LET d == DateOf(parse_timestamp(item.time_stamp))
            qvin == item.query_vin
            key == KeyOf(item)
            counted == [acc EXCEPT !.per_day = CounterInc(acc.per_day, d)]
        IN  IF ~IsNewKey(acc.unique_records, key) THEN counted
            ELSE [unique_records |->
                      Append(acc.unique_records, [key |-> key, row |-> RowOf(item)]),
                  per_day |-> counted.per_day,
                  vin_counter |->
                      IF Truthy(qvin) THEN CounterInc(acc.vin_counter, qvin)
                      ELSE acc.vin_counter]

\* the body of `for item in data`
StatsStep(acc, item, org, from, to) ==
    IF ~Passes(item, org, from, to) THEN acc
    ELSE
        LET d == DateOf(parse_timestamp(item.time_stamp))
            qvin == item.query_vin
            key == KeyOf(item)
        IN  IF ~IsNewKey(acc.unique_records, key) THEN acc
            ELSE [unique_records |->
                      Append(acc.unique_records, [key |-> key, row |-> RowOf(item)]),
                  per_day |-> CounterInc(acc.per_day, d),
                  vin_counter |->
                      IF Truthy(qvin) THEN CounterInc(acc.vin_counter, qvin)
                      ELSE acc.vin_counter]

StatsEmpty == [unique_records |-> <<>>, per_day |-> <<>>, vin_counter |-> <<>>]

RECURSIVE StatsLoop(_, _, _, _)
StatsLoop(items, org, from, to) ==
    IF items = <<>> THEN StatsEmpty
    ELSE StatsStep(StatsLoop(SubSeq(items, 1, Len(items) - 1), org, from, to),
                   items[Len(items)], org, from, to)

\* calculate_stats(data, org_name, d_from, d_to)
calculate_stats(items, org, from, to) ==
    LET acc == StatsLoop(items, org, from, to) IN
    [export_rows |-> [i \in 1..Len(acc.unique_records) |-> acc.unique_records[i].row],
     per_day |-> acc.per_day,
     top_vins |-> most_common(acc.vin_counter, TopN)]

\* ------------------------------------------------------------- load_ah_data

\* a query-log record as load_ah_data holds it
AhRec(user, oid, oname, vin, ts, rtype) ==
    [user_id |-> user,
     organization_id |-> oid,
     organization_name |-> oname,
     query_vin |-> vin,
     time_stamp |-> ts,
     response_type |-> rtype]

\* a CSV cell: its text, with or without blanks around it; NoneVal is a
\* column the row does not have
Cell(text, blanks) == [text |-> text, blanks |-> blanks, day |-> 0, time |-> 0]

\* an order_date cell reading "YYYY-MM-DD HH:MM:SS" of day and time
DateCell(day, time, blanks) ==
    [text |-> "YYYY-MM-DD HH:MM:SS", blanks |-> blanks, day |-> day, time |-> time]

\* (row.get(col) or "").strip()
CellText(cell) == IF cell.text = NoneVal THEN "" ELSE cell.text

\* datetime.strptime(order_date, "%Y-%m-%d %H:%M:%S"): day 0 is a text that
\* does not match
OrderDateOk(cell) == cell.text # NoneVal /\ cell.day >= 1

\* dt.strftime("%Y-%m-%dT%H:%M:%S+0000")
StrfTime(cell) == <<Tok("date", cell.day), Tok("T", 0), Tok("time", cell.time), Tok("off", 0)>>

\* update_min_max(d); 0 is None
UpdateMinMax(acc, d) ==
    [acc EXCEPT !.min_date = IF @ = 0 \/ d < @ THEN d ELSE @,
                !.max_date = IF @ = 0 \/ d > @ THEN d ELSE @]

\* org_id_to_name: entries [k, v] in insertion order
RECURSIVE DictHas(_, _)
DictHas(dict, k) == dict # <<>> /\ (Head(dict).k = k \/ DictHas(Tail(dict), k))

\* dict.get(k, default)
RECURSIVE DictGet(_, _, _)
DictGet(dict, k, default) ==
    IF dict = <<>> THEN default
    ELSE IF Head(dict).k = k THEN Head(dict).v
    ELSE DictGet(Tail(dict), k, default)

\* the body of `for rec in arr` (lines 111-127)
JsonStep(acc, rec) ==
    IF TsFalsy(rec.time_stamp) THEN acc
    ELSE IF ~parse_timestamp(rec.time_stamp).ok THEN acc
    ELSE
        LET dated == UpdateMinMax(acc, DateOf(parse_timestamp(rec.time_stamp)))
            oid == rec.organization_id
            oname == rec.organization_name
        IN  [dated EXCEPT
                !.org_id_to_name =
                    IF Truthy(oid) /\ Truthy(oname) /\ ~DictHas(@, oid)
                    THEN Append(@, [k |-> oid, v |-> oname]) ELSE @,
                !.data = Append(@, rec)]

RECURSIVE JsonLoop(_, _)
JsonLoop(acc, arr) ==
    IF arr = <<>> THEN acc ELSE JsonLoop(JsonStep(acc, Head(arr)), Tail(arr))

\* st.warning(...)
Warn(acc, msg) == [acc EXCEPT !.warnings = Append(@, msg)]

\* a load_json whose failure throws away what was gathered
LoadJsonDropsData(acc, file) ==
    IF file.kind = "unreadable"
    THEN [Warn(acc, "Ne mogu ucitati JSON datoteku") EXCEPT !.data = <<>>]
    ELSE IF file.kind = "notlist"
    THEN [Warn(acc, "JSON datoteka nije lista zapisa") EXCEPT !.data = <<>>]
    ELSE JsonLoop(acc, file.recs)

\* load_json(path)
load_json(acc, file) ==
    IF file.kind = "unreadable" THEN Warn(acc, "Ne mogu ucitati JSON datoteku")
    ELSE IF file.kind = "notlist" THEN Warn(acc, "JSON datoteka nije lista zapisa")
    ELSE JsonLoop(acc, file.recs)

\* the body of `for row in reader` (lines 135-161)
CsvStep(acc, row) ==
    LET vin == CellText(row.vin)
        org_id == CellText(row.organisation)
        user_id == CellText(row.order_client)
    IN  IF vin = "" \/ CellText(row.order_date) = "" THEN acc
        ELSE IF ~OrderDateOk(row.order_date) THEN acc
        ELSE [UpdateMinMax(acc, row.order_date.day) EXCEPT
                 !.data = Append(@, AhRec(user_id, org_id,
                                          DictGet(acc.org_id_to_name, org_id, org_id),
                                          vin, StrfTime(row.order_date), NoneVal))]

\* the rows of a CSV from row i on; reading row failAt raises, and the
\* `except Exception` of line 162 warns and ends the file
RECURSIVE CsvLoop(_, _, _)
CsvLoop(acc, file, i) ==
    IF file.failAt = i THEN Warn(acc, "Ne mogu ucitati CSV datoteku")
    ELSE IF i > Len(file.rows) THEN acc
    ELSE CsvLoop(CsvStep(acc, file.rows[i]), file, i + 1)

\* load_csv(path)
load_csv(acc, file) == CsvLoop(acc, file, 1)

AhEmpty ==
    [data |-> <<>>, org_id_to_name |-> <<>>, min_date |-> 0, max_date |-> 0,
     warnings |-> <<>>]

\* the body of `for fname in sorted(selected_files)` (lines 166-174)
AhFileStep(acc, file) ==
    IF ~file.isfile THEN acc
    ELSE IF file.ext = "json" THEN load_json(acc, file)
    ELSE IF file.ext = "csv" THEN load_csv(acc, file)
    ELSE acc

RECURSIVE AhFileLoop(_, _)
AhFileLoop(acc, files) ==
    IF files = <<>> THEN acc ELSE AhFileLoop(AhFileStep(acc, Head(files)), Tail(files))

\* a load_ah_data that names the CSV records (response_type None) from the
\* mapping as it stands after the last file
LoadAhDataResolvesLate(files) ==
    LET acc == AhFileLoop(AhEmpty, files)
        named == [i \in 1..Len(acc.data) |->
                     IF acc.data[i].response_type = NoneVal
                     THEN [acc.data[i] EXCEPT !.organization_name =
                              DictGet(acc.org_id_to_name,
                                      acc.data[i].organization_id,
                                      acc.data[i].organization_id)]
                     ELSE acc.data[i]]
    IN  [kind |-> "returned",
         data |-> named,
         org_names |-> {named[i].organization_name : i \in 1..Len(named)}
                           \ {NoneVal, ""},
         min_date |-> acc.min_date,
         max_date |-> acc.max_date,
         warnings |-> acc.warnings]

\* load_ah_data(selected_files); org_names, a sorted list without repeats, is
\* the set of its members
load_ah_data(files) ==
    LET acc == AhFileLoop(AhEmpty, files) IN
    [kind |-> "returned",
     data |-> acc.data,
     org_names |-> {acc.data[i].organization_name : i \in 1..Len(acc.data)}
                       \ {NoneVal, ""},
     min_date |-> acc.min_date,
     max_date |-> acc.max_date,
     warnings |-> acc.warnings]

\* ------------------------------------------------------------ load_vin_data

\* the names bound in the module's namespace when a function body runs: the
\* imports of lines 1-11, the module's constants and its functions
ModuleGlobals ==
    {"os", "json", "csv", "datetime", "date", "Counter", "BytesIO", "pd", "st",
     "Workbook", "plt",
     "BASE_DIR", "DATA_DIR", "IMAGES_DIR", "LOGO_PATH", "AH_LOGO_PATH",
     "ORG_FILE", "ORG_SHEET",
     "parse_timestamp", "list_data_files", "load_ah_data", "calculate_stats",
     "make_excel_bytes", "render_header_ah", "show_ah_stat_portal",
     "load_vin_data", "render_header_vin", "show_vin_search", "check_password",
     "main"}

\* a name a function body reads resolves only if the module binds it;
\* otherwise the read raises NameError
NameResolves(name) == name \in ModuleGlobals

\* a text cell is a sequence of characters; a missing cell is pandas' NaN
NaNCell == <<"NaN">>

\* .astype(str): a text stays, NaN becomes the text "nan"
AsTypeStr(cell) == IF cell = NaNCell THEN <<"n", "a", "n">> ELSE cell

\* .str.zfill(width): '0' on the left up to width, longer texts unchanged
RECURSIVE ZFill(_, _)
ZFill(cell, width) ==
    IF Len(cell) >= width THEN cell ELSE ZFill(<<"0">> \o cell, width)

\* df[col].astype(str).str.zfill(width)
NormalizeCode(cell, width) == ZFill(AsTypeStr(cell), width)

\* the rows of one statistics file after lines 492-500
NormalizeStatRows(file, year) ==
    [i \in 1..Len(file.rows) |->
        [CUSTOMERID |-> NormalizeCode(file.rows[i].CUSTOMERID, CodeWidth),
         MANUFACTURERCODE |->
             IF file.hasMfr
             THEN NormalizeCode(file.rows[i].MANUFACTURERCODE, MfrWidth)
             ELSE NaNCell,
         VINNUMBER |-> IF file.hasVin THEN file.rows[i].VINNUMBER ELSE NaNCell,
         YEAR |-> year]]

\* os.path.basename(path).split("_")[0] of the i-th file in sorted order
YearOf(i) == 2017 + i

Returned(df, err) == [kind |-> "returned", df |-> df, err |-> err, exc |-> ""]
Raised(exc) == [kind |-> "raised", df |-> <<>>, err |-> "", exc |-> exc]
NoDf == <<>>
NoErr == ""

\* the loop of lines 484-501 from file i on: the frames, or the first error
RECURSIVE ReadStatFiles(_, _, _)
ReadStatFiles(files, i, frames) ==
    IF i > Len(files) THEN [err |-> NoErr, frames |-> frames]
    ELSE IF ~files[i].readable
         THEN [err |-> "Problem pri citanju CSV datoteke", frames |-> <<>>]
    ELSE IF ~files[i].hasCustomerId
         THEN [err |-> "nedostaje kolona 'CUSTOMERID'", frames |-> <<>>]
    ELSE ReadStatFiles(files, i + 1, frames \o NormalizeStatRows(files[i], YearOf(i)))

\* the organization rows after lines 517-518
NormalizeOrgRows(rows) ==
    [i \in 1..Len(rows) |->
        [CUSTOMERID |-> NormalizeCode(rows[i].CODE, CodeWidth), NAME |-> rows[i].NAME]]

\* the rows stat_df.merge(org_df, on="CUSTOMERID", how="left") gives for one
\* statistics row: one per organization row of its code, in their order, or
\* one with the organization columns missing
RECURSIVE MatchesOf(_, _)
MatchesOf(row, orgs) ==
    IF orgs = <<>> THEN <<>>
    ELSE (IF Head(orgs).CUSTOMERID = row.CUSTOMERID
          THEN <<[row |-> row, NAME |-> Head(orgs).NAME]>> ELSE <<>>)
         \o MatchesOf(row, Tail(orgs))

MergeRow(row, orgs) ==
    IF MatchesOf(row, orgs) = <<>> THEN <<[row |-> row, NAME |-> NaNCell]>>
    ELSE MatchesOf(row, orgs)

\* stat_df.merge(org_df, on="CUSTOMERID", how="left")
RECURSIVE MergeLeft(_, _)
MergeLeft(stat, orgs) ==
    IF stat = <<>> THEN <<>>
    ELSE MergeRow(Head(stat), orgs) \o MergeLeft(Tail(stat), orgs)

\* load_vin_data from line 479 on, once sorted(glob.glob(pattern)) has
\* returned the files
LoadVinBody(dir) ==
    IF dir.files = <<>> THEN Returned(NoDf, "Nisam nasao statisticke CSV datoteke")
    ELSE
        LET read == ReadStatFiles(dir.files, 1, <<>>) IN
        IF read.err # NoErr THEN Returned(NoDf, read.err)
        ELSE IF dir.org.kind = "absent" THEN Returned(NoDf, "Nisam nasao Organizations.xlsx")
        ELSE IF dir.org.kind = "unreadable"
             THEN Returned(NoDf, "Problem pri citanju Organizations.xlsx")
        ELSE IF dir.org.kind = "nocode" THEN Returned(NoDf, "nedostaje kolona 'CODE'")
        ELSE Returned(MergeLeft(read.frames, NormalizeOrgRows(dir.org.rows)), NoErr)

\* load_vin_data(): line 477 reads the name `glob` first
load_vin_data(dir) ==
    IF ~NameResolves("glob") THEN Raised("NameError") ELSE LoadVinBody(dir)

\* ---------------------------------------------------------- show_vin_search

\* str.upper() on the letters the VINs here are written with
UpperChar(c) ==
    IF c = "w" THEN "W" ELSE IF c = "v" THEN "V" ELSE c

Upper(cell) == [i \in 1..Len(cell) |-> UpperChar(cell[i])]

\* str.strip() of the text box: blanks are the character " "
RECURSIVE StripBlanks(_)
StripBlanks(cell) ==
    IF cell # <<>> /\ Head(cell) = " " THEN StripBlanks(Tail(cell))
    ELSE IF cell # <<>> /\ cell[Len(cell)] = " "
         THEN StripBlanks(SubSeq(cell, 1, Len(cell) - 1))
    ELSE cell

\* .fillna(""): NaN becomes the empty text
FillNa(cell) == IF cell = NaNCell THEN <<>> ELSE cell

\* df["VINNUMBER"].fillna("").str.upper() == vin_query
VinMask(mergedRow, vin_query) == Upper(FillNa(mergedRow.row.VINNUMBER)) = vin_query

\* df[mask]
RECURSIVE SelectRows(_, _)
SelectRows(df, vin_query) ==
    IF df = <<>> THEN <<>>
    ELSE (IF VinMask(Head(df), vin_query) THEN <<Head(df)>> ELSE <<>>)
         \o SelectRows(Tail(df), vin_query)

\* results.sort_values(["YEAR"]): ascending YEAR, rows of a year in their order
RECURSIVE InsertByYear(_, _)
InsertByYear(sorted, r) ==
    IF sorted = <<>> THEN <<r>>
    ELSE IF Head(sorted).row.YEAR <= r.row.YEAR
         THEN <<Head(sorted)>> \o InsertByYear(Tail(sorted), r)
    ELSE <<r>> \o sorted

RECURSIVE SortByYear(_)
SortByYear(rows) ==
    IF rows = <<>> THEN <<>>
    ELSE InsertByYear(SortByYear(SubSeq(rows, 1, Len(rows) - 1)), rows[Len(rows)])

Page(kind, results) == [kind |-> kind, results |-> results]

\* "VINNUMBER" in df.columns: some file brought the column
HasVinColumn(dir) == \E i \in 1..Len(dir.files) : dir.files[i].hasVin

\* show_vin_search from line 596 on, given what load_vin_data did
show_vin_search(dir, load, input) ==
    IF load.kind = "raised" THEN Page("exception", <<>>)
    ELSE IF load.err # NoErr THEN Page("error", <<>>)
    ELSE IF load.df = <<>> THEN Page("no_data", <<>>)
    ELSE IF input.clear_clicked THEN Page("rerun", <<>>)
    ELSE IF (input.search_clicked \/ input.last_vin # input.vin)
            /\ StripBlanks(input.vin) # <<>>
         THEN LET vin_query == Upper(StripBlanks(input.vin))
                  results == SelectRows(load.df, vin_query)
              IN  IF ~HasVinColumn(dir) THEN Page("no_column", <<>>)
                  ELSE IF results = <<>> THEN Page("no_results", <<>>)
                  ELSE Page("results", SortByYear(results))
    ELSE Page("prompt", <<>>)

\* ------------------------------------------------- inputs of load_ah_data

JsonFile(kind, recs) ==
    [isfile |-> TRUE, ext |-> "json", kind |-> kind, recs |-> recs,
     rows |-> <<>>, failAt |-> 0]

CsvFile(rows, failAt) ==
    [isfile |-> TRUE, ext |-> "csv", kind |-> "csv", recs |-> <<>>,
     rows |-> rows, failAt |-> failAt]

CsvRow(vin, order_date, organisation, order_client) ==
    [vin |-> vin, order_date |-> order_date, organisation |-> organisation,
     order_client |-> order_client]

\* two rows that load, of a known and of an unknown organization
CsvRowsGood ==
    <<CsvRow(Cell("VIN_A", TRUE), DateCell(2, 1, FALSE), Cell("o1", FALSE), Cell("u7", FALSE)),
      CsvRow(Cell("VIN_B", FALSE), DateCell(3, 2, TRUE), Cell("o9", FALSE), Cell("u8", FALSE))>>

\* rows the loop skips: no VIN, no date, a date that does not match
CsvRowsSkipped ==
    <<CsvRow(Cell("", FALSE), DateCell(2, 1, FALSE), Cell("o1", FALSE), Cell("u7", FALSE)),
      CsvRow(Cell("VIN_A", FALSE), Cell(NoneVal, FALSE), Cell("o1", FALSE), Cell("u7", FALSE)),
      CsvRow(Cell("VIN_A", FALSE), Cell("01.02.2024", FALSE), Cell("o1", FALSE), Cell("u7", FALSE))>>

\* the query-log files: JSON that cannot be read or parsed, JSON that is no
\* list, two JSON lists, a CSV read to its end, one that fails at its second
\* row, one that fails at once, one whose rows are all skipped, and a name
\* that is no file any more
AhFileKinds ==
    {JsonFile("unreadable", <<>>),
     JsonFile("notlist", <<>>),
     JsonFile("list", <<AhRec("u1", "o1", "Acme", "VIN_A", TsPlain(1), "full")>>),
     JsonFile("list", <<AhRec("u2", "o1", "Acme Ltd", "VIN_B", TsZ(2), "full"),
                        AhRec("u3", "o2", NoneVal, "VIN_A", TsJunk, "full"),
                        AhRec("u4", NoneVal, "Beta", "VIN_A", TsNone, "full"),
                        AhRec("u5", "o9", "Nine", "VIN_C", TsOff(3, 120), "full")>>),
     CsvFile(CsvRowsGood, 0),
     CsvFile(CsvRowsGood, 2),
     CsvFile(CsvRowsGood, 1),
     CsvFile(CsvRowsSkipped, 0),
     [JsonFile("list", <<AhRec("u1", "o1", "Acme", "VIN_A", TsPlain(1), "full")>>)
         EXCEPT !.isfile = FALSE]}

\* the selected files in sorted order
AhSelections == UNION {[1..n -> AhFileKinds] : n \in 0..MaxAhFiles}

NoAhLoad ==
    [kind |-> "none", data |-> <<>>, org_names |-> {}, min_date |-> 0, max_date |-> 0,
     warnings |-> <<>>]

\* load_ah_data at rest
AhIdle == ahFiles = <<>> /\ ahLoad = NoAhLoad

\* the first option of the organization selectbox
AllOrgs == "(Sve organizacije)"

NoPortalInput ==
    [selected |-> {}, selected_org |-> AllOrgs, d_from |-> 1, d_to |-> 1, clicked |-> FALSE]

NoPortal ==
    [kind |-> "none", messages |-> <<>>, calls |-> <<>>, metric |-> 0,
     table |-> <<>>, download |-> <<>>, charts |-> FALSE]

\* show_ah_stat_portal at rest
PortalIdle == dataDir = <<>> /\ portal_input = NoPortalInput /\ portal = NoPortal

NoSecrets == [file |-> FALSE, username |-> NoneVal, password |-> NoneVal]

\* a session_state without the key "authenticated" (FALSE) or with it set to
\* True
NewSession == [authenticated |-> FALSE]

NoMainInput ==
    [username |-> "", password |-> "", login_btn |-> FALSE, izbor |-> "AH STATISTIKA PORTAL"]

NoMainRun == [kind |-> "none", login_form |-> FALSE, messages |-> <<>>, view |-> "none"]

\* main at rest
MainIdle ==
    /\ secrets = NoSecrets
    /\ session_state = NewSession
    /\ main_input = NoMainInput
    /\ main_run = NoMainRun

\* ------------------------------------------ inputs of the statistics path

StatRow(id, mfr, vin) == [CUSTOMERID |-> id, MANUFACTURERCODE |-> mfr, VINNUMBER |-> vin]

StatFile(readable, hasCustomerId, hasMfr, hasVin, rows) ==
    [readable |-> readable, hasCustomerId |-> hasCustomerId, hasMfr |-> hasMfr,
     hasVin |-> hasVin, rows |-> rows]

Id123 == <<"1", "2", "3">>
Id9 == <<"0", "0", "0", "0", "0", "0", "1", "2", "3">>
Id10 == <<"1", "2", "3", "4", "5", "6", "7", "8", "9", "0">>
VinLower == <<"w", "v", "w">>
VinUpper == <<"W", "V", "W">>
VinLonger == <<"W", "V", "W", "X">>

\* the statistics files data/ is drawn from: one that cannot be read, one
\* without CUSTOMERID, a short identifier, a 10-character identifier, a missing
\* identifier and VIN, a file without VINNUMBER, and two rows of one customer
StatFiles ==
    {StatFile(FALSE, TRUE, FALSE, TRUE, <<>>),
     StatFile(TRUE, FALSE, FALSE, TRUE, <<StatRow(NaNCell, NaNCell, VinUpper)>>),
     StatFile(TRUE, TRUE, TRUE, TRUE, <<StatRow(Id123, <<"7">>, VinLower)>>),
     StatFile(TRUE, TRUE, FALSE, TRUE, <<StatRow(Id10, NaNCell, VinUpper)>>),
     StatFile(TRUE, TRUE, FALSE, TRUE, <<StatRow(NaNCell, NaNCell, NaNCell)>>),
     StatFile(TRUE, TRUE, FALSE, FALSE, <<StatRow(Id123, NaNCell, NaNCell)>>),
     StatFile(TRUE, TRUE, FALSE, TRUE,
              <<StatRow(Id123, NaNCell, VinUpper), StatRow(Id9, NaNCell, VinLonger)>>)}

OrgRow(code, name) == [CODE |-> code, NAME |-> name]

\* Organizations.xlsx: absent, unreadable, without CODE, one organization, two
\* rows whose codes normalize to one, and a row with a missing code
OrgFiles ==
    {[kind |-> "absent", rows |-> <<>>],
     [kind |-> "unreadable", rows |-> <<>>],
     [kind |-> "nocode", rows |-> <<>>],
     [kind |-> "ok", rows |-> <<OrgRow(Id123, "Acme")>>],
     [kind |-> "ok", rows |-> <<OrgRow(Id123, "Acme"), OrgRow(Id9, "Acme d.o.o.")>>],
     [kind |-> "ok", rows |-> <<OrgRow(NaNCell, "Ghost")>>]}

\* data/: the statistics files in sorted order, the i-th named for year YearOf(i)
VinDirs ==
    {[files |-> f, org |-> o] :
        f \in UNION {[1..n -> StatFiles] : n \in 0..MaxStatFiles}, o \in OrgFiles}

\* what the user gives a run of show_vin_search
VinInputs ==
    [vin : {<<>>, VinLower, VinUpper, <<" ", "w", "v", "w">>, <<"W", "V">>},
     search_clicked : BOOLEAN,
     clear_clicked : BOOLEAN,
     last_vin : {<<>>, VinLower}]

NoDir == [files |-> <<>>, org |-> [kind |-> "absent", rows |-> <<>>]]
NoLoad == [kind |-> "none", df |-> <<>>, err |-> "", exc |-> ""]
NoInput == [vin |-> <<>>, search_clicked |-> FALSE, clear_clicked |-> FALSE, last_vin |-> <<>>]
NoPage == Page("none", <<>>)

\* the statistics path at rest
VinIdle == vinDir = NoDir /\ vinLoad = NoLoad /\ vin_input = NoInput /\ page = NoPage

NoStats == [export_rows |-> <<>>, per_day |-> <<>>, top_vins |-> <<>>]

\* calculate_stats at rest
StatsIdle == data = <<>> /\ org_name = "" /\ d_from = 1 /\ d_to = 1 /\ stats = NoStats

InitVin ==
    /\ phase = "input"
    /\ vinDir \in VinDirs
    /\ vinLoad = NoLoad
    /\ vin_input = NoInput
    /\ page = NoPage
    /\ StatsIdle
    /\ AhIdle
    /\ PortalIdle
    /\ MainIdle

\* one call of load_vin_data()
LoadVinData ==
    /\ phase = "input"
    /\ phase' = "load_vin_data"
    /\ vinLoad' = load_vin_data(vinDir)
    /\ UNCHANGED <<vinDir, vin_input, page, statsVars, ahVars, portalVars, mainVars>>

\* one run of show_vin_search() with the user's input
ShowVinSearch ==
    /\ phase = "input"
    /\ phase' = "show_vin_search"
    /\ \E input \in VinInputs :
          /\ vin_input' = input
          /\ vinLoad' = load_vin_data(vinDir)
          /\ page' = show_vin_search(vinDir, vinLoad', input)
    /\ UNCHANGED <<vinDir, statsVars, ahVars, portalVars, mainVars>>

NextVin == LoadVinData \/ ShowVinSearch

SpecVin == InitVin /\ [][NextVin]_vars

\* ------------------------------------------------------ load_ah_data runs

InitAh ==
    /\ phase = "input"
    /\ ahFiles \in AhSelections
    /\ ahLoad = NoAhLoad
    /\ StatsIdle
    /\ VinIdle
    /\ PortalIdle
    /\ MainIdle

\* one call of load_ah_data(selected_files)
LoadAhData ==
    /\ phase = "input"
    /\ phase' = "load_ah_data"
    /\ ahLoad' = load_ah_data(ahFiles)
    /\ UNCHANGED <<ahFiles, statsVars, vinVars, portalVars, mainVars>>

NextAh == LoadAhData

SpecAh == InitAh /\ [][NextAh]_vars

\* ------------------------------------------------- inputs of calculate_stats

Days == 1..MaxDay

\* a query-log record; user_id is set to the record's place in `data` below
Item(org, vin, ts) ==
    [user_id |-> 0,
     organization_id |-> IF org = "Acme" THEN "o1" ELSE "o2",
     organization_name |-> org,
     query_vin |-> vin,
     time_stamp |-> ts]

\* the records `data` is drawn from: one VIN on days 1, 2 and 3, a second text
\* of day 2's instant, a second VIN, a second organization with the key of a
\* record of the first, a timestamp that does not parse, an offset text,
\* and an empty VIN
StatsItems ==
    {Item("Acme", "VIN_A", TsPlain(1)),
     Item("Acme", "VIN_A", TsPlain(2)),
     Item("Acme", "VIN_A", TsZ(2)),
     Item("Acme", "VIN_A", TsPlain(3)),
     Item("Acme", "VIN_B", TsPlain(2)),
     Item("Beta", "VIN_A", TsPlain(2)),
     Item("Acme", "VIN_A", TsJunk),
     Item("Acme", "VIN_B", TsOff(1, 120)),
     Item("Acme", "", TsPlain(2))}

\* every `data` of at most MaxRecs records, record i carrying user_id i
StatsInputs ==
    UNION {{[i \in 1..n |-> [s[i] EXCEPT !.user_id = i]] : s \in [1..n -> StatsItems]}
           : n \in 0..MaxRecs}

InitStats ==
    /\ phase = "input"
    /\ data \in StatsInputs
    /\ org_name \in {"", "Acme"}
    /\ d_from \in Days
    /\ d_to \in Days
    /\ stats = NoStats
    /\ VinIdle
    /\ AhIdle
    /\ PortalIdle
    /\ MainIdle

\* one call of calculate_stats(data, org_name, d_from, d_to)
CalcStats ==
    /\ phase = "input"
    /\ phase' = "calculate_stats"
    /\ stats' = calculate_stats(data, org_name, d_from, d_to)
    /\ UNCHANGED <<data, org_name, d_from, d_to, vinVars, ahVars, portalVars, mainVars>>

NextStats == CalcStats

SpecStats == InitStats /\ [][NextStats]_vars

\* ----------------------------------------- inputs of the top-VIN runs

\* the VIN texts: 0 is a record without query_vin
TopVin(v) == IF v = 0 THEN NoneVal ELSE "VIN_" \o ToString(v)

RECURSIVE SeqMax(_)
SeqMax(s) ==
    IF s = <<>> THEN 0
    ELSE IF s[Len(s)] > SeqMax(SubSeq(s, 1, Len(s) - 1)) THEN s[Len(s)]
    ELSE SeqMax(SubSeq(s, 1, Len(s) - 1))

\* the sequences of n VINs in which VIN v + 1 is first met after VIN v:
\* calculate_stats compares VINs for equality only, so every sequence of VINs
\* is one of these with the VINs renamed
RECURSIVE CanonVinSeqs(_)
CanonVinSeqs(n) ==
    IF n = 0 THEN {<<>>}
    ELSE UNION {{Append(s, v) :
                    v \in 0..(IF SeqMax(s) < MaxVins THEN SeqMax(s) + 1 ELSE MaxVins)}
                : s \in CanonVinSeqs(n - 1)}

\* `data` for a sequence of VINs: record i is dated day 1 at its own time of
\* day i, so every record is kept and none is a duplicate
TopData(s) ==
    [i \in 1..Len(s) |-> [Item("Acme", TopVin(s[i]), TsPlainAt(1, i)) EXCEPT !.user_id = i]]

InitTop ==
    /\ phase = "input"
    /\ \E n \in 0..MaxTopRecs : \E s \in CanonVinSeqs(n) : data = TopData(s)
    /\ org_name = ""
    /\ d_from = 1
    /\ d_to = MaxDay
    /\ stats = NoStats
    /\ VinIdle
    /\ AhIdle
    /\ PortalIdle
    /\ MainIdle

\* calculate_stats on the inputs of InitStats (filters and duplicates) and on
\* those of InitTop (more VINs than most_common keeps)
SpecTop == (InitStats \/ InitTop) /\ [][NextStats]_vars

\* ------------------------------------------------------ show_ah_stat_portal

\* list_data_files(): the entries of data/ that are files named *.json or
\* *.csv, in sorted order
list_data_files(dir) ==
    SelectSeq(dir, LAMBDA f : f.isfile /\ f.ext \in {"json", "csv"})

\* the files of all_files the multiselect holds, as sorted(selected_files)
\* gives them to the loader
RECURSIVE SelectedFiles(_, _, _)
SelectedFiles(all_files, selected, i) ==
    IF i > Len(all_files) THEN <<>>
    ELSE (IF i \in selected THEN <<all_files[i]>> ELSE <<>>)
         \o SelectedFiles(all_files, selected, i + 1)

\* how a run of show_ah_stat_portal ended: the st.warning/info/error/success
\* boxes it drew, its calls of calculate_stats, the metric, the table, the
\* rows offered for download and whether the charts were drawn
PortalRun(kind, messages, calls, metric, table, download, charts) ==
    [kind |-> kind, messages |-> messages, calls |-> calls, metric |-> metric,
     table |-> table, download |-> download, charts |-> charts]

\* a run that st.stop() ends after one message
PortalStopped(kind, message) == PortalRun(kind, <<message>>, <<>>, 0, <<>>, <<>>, FALSE)

\* a date check that lets an inverted range through
DateCheckNever(from, to) == FALSE

\* `if d_from > d_to` (line 350)
DateRangeInverted(from, to) == from > to

\* export_rows[:200]
First200(rows) == SubSeq(rows, 1, IF Len(rows) < 200 THEN Len(rows) ELSE 200)

\* lines 356-461: the button is pressed
PortalResult(loaded, inp) ==
    LET org_filter == IF inp.selected_org # AllOrgs THEN inp.selected_org ELSE ""
        call == [data |-> loaded, org_name |-> org_filter,
                 d_from |-> inp.d_from, d_to |-> inp.d_to]
        result == calculate_stats(loaded, org_filter, inp.d_from, inp.d_to)
        rows == result.export_rows
    IN  IF rows = <<>>
        THEN PortalRun("result", <<"info">>, <<call>>, 0, <<>>, <<>>, FALSE)
        ELSE IF result.per_day = <<>> /\ result.top_vins = <<>>
        THEN PortalRun("result", <<"success", "info">>, <<call>>, Len(rows),
                       First200(rows), rows, FALSE)
        ELSE PortalRun("result", <<"success">>, <<call>>, Len(rows),
                       First200(rows), rows, TRUE)

\* show_ah_stat_portal() on the entries of data/ and the user's choices
show_ah_stat_portal(dir, inp) ==
    LET all_files == list_data_files(dir)
        selected_files == SelectedFiles(all_files, inp.selected, 1)
        loaded == load_ah_data(selected_files)
    IN  IF all_files = <<>> THEN PortalStopped("no_files", "warning")
        ELSE IF selected_files = <<>> THEN PortalStopped("no_selection", "info")
        ELSE IF loaded.data = <<>>
        THEN [PortalStopped("no_data", "warning") EXCEPT
                 !.messages = loaded.warnings \o @]
        ELSE IF DateRangeInverted(inp.d_from, inp.d_to)
        THEN [PortalStopped("date_error", "error") EXCEPT
                 !.messages = loaded.warnings \o @]
        ELSE IF inp.clicked
        THEN [PortalResult(loaded.data, inp) EXCEPT !.messages = loaded.warnings \o @]
        ELSE [PortalStopped("prompt", "info") EXCEPT !.messages = loaded.warnings \o @]

\* ------------------------------------------- inputs of show_ah_stat_portal

\* an entry of data/ that is neither *.json nor *.csv
OtherFile ==
    [isfile |-> TRUE, ext |-> "xlsx", kind |-> "other", recs |-> <<>>,
     rows |-> <<>>, failAt |-> 0]

\* a JSON query log of two organizations on days 1 to 3, with one record
\* that repeats another's VIN and timestamp
PortalJson ==
    JsonFile("list", <<AhRec("u1", "o1", "Acme", "VIN_A", TsPlain(1), "full"),
                       AhRec("u2", "o1", "Acme", "VIN_A", TsPlain(1), "full"),
                       AhRec("u3", "o2", "Beta", "VIN_B", TsZ(2), "full"),
                       AhRec("u4", "o1", "Acme", NoneVal, TsPlain(3), "full")>>)

\* data/: empty, holding nothing the portal lists, files whose rows are all
\* skipped, a JSON log, a JSON log next to a CSV export
PortalDirs ==
    {<<>>,
     <<OtherFile>>,
     <<CsvFile(CsvRowsSkipped, 0), JsonFile("notlist", <<>>)>>,
     <<PortalJson, OtherFile>>,
     <<CsvFile(CsvRowsGood, 0), PortalJson>>,
     <<PortalJson, CsvFile(CsvRowsGood, 2), JsonFile("unreadable", <<>>)>>}

\* the days the date inputs can be set to
PortalDays == 1..(MaxDay + 1)

\* what the user can choose on data/ = dir: a selection of the listed
\* files, and, when the filters are drawn, an organization of the selectbox,
\* the two dates and the button
PortalInputs(dir) ==
    LET all_files == list_data_files(dir) IN
    UNION {LET loaded == load_ah_data(SelectedFiles(all_files, sel, 1)) IN
           IF loaded.data = <<>>
           THEN {[NoPortalInput EXCEPT !.selected = sel]}
           ELSE [selected : {sel},
                 selected_org : {AllOrgs} \cup loaded.org_names,
                 d_from : PortalDays,
                 d_to : PortalDays,
                 clicked : BOOLEAN]
           : sel \in SUBSET (1..Len(all_files))}

InitPortal ==
    /\ phase = "input"
    /\ dataDir \in PortalDirs
    /\ portal_input = NoPortalInput
    /\ portal = NoPortal
    /\ StatsIdle
    /\ VinIdle
    /\ AhIdle
    /\ MainIdle

\* one run of show_ah_stat_portal() with the user's choices
ShowAhStatPortal ==
    /\ phase = "input"
    /\ phase' = "show_ah_stat_portal"
    /\ \E inp \in PortalInputs(dataDir) :
          /\ portal_input' = inp
          /\ portal' = show_ah_stat_portal(dataDir, inp)
    /\ UNCHANGED <<dataDir, statsVars, vinVars, ahVars, mainVars>>

NextPortal == ShowAhStatPortal

SpecPortal == InitPortal /\ [][NextPortal]_vars

\* ------------------------------------------------------ check_password, main

\* the options of the sidebar radio (the second written without its caron)
PortalChoice == "AH STATISTIKA PORTAL"
VinChoice == "AH PRETRAGA PO BROJU SASIJE"

\* what check_password() leaves behind: the session state, the returned
\* value, whether the login form was drawn, the st.success/st.error boxes,
\* and whether reading st.secrets raised
PasswordCheck(session, result, login_form, messages, raised) ==
    [session_state |-> session, result |-> result, login_form |-> login_form,
     messages |-> messages, raised |-> raised]

\* valid_username and valid_password after lines 689-695: the pair of the
\* [auth] section, or admin/admin when either of them is missing or empty
ValidPair(sec) ==
    IF ~Truthy(sec.username) \/ ~Truthy(sec.password)
    THEN [username |-> "admin", password |-> "admin"]
    ELSE [username |-> sec.username, password |-> sec.password]

\* a check_password that takes a submission with either field right
CheckPasswordEitherMatches(sec, session, inp, raises) ==
    IF session.authenticated THEN PasswordCheck(session, TRUE, FALSE, <<>>, FALSE)
    ELSE IF ~sec.file /\ raises THEN PasswordCheck(session, FALSE, FALSE, <<>>, TRUE)
    ELSE
        LET valid == ValidPair(sec) IN
        IF inp.login_btn
        THEN IF inp.username = valid.username \/ inp.password = valid.password
             THEN PasswordCheck([session EXCEPT !.authenticated = TRUE], TRUE, TRUE,
                                <<"success">>, FALSE)
             ELSE PasswordCheck(session, session.authenticated, TRUE, <<"error">>, FALSE)
        ELSE PasswordCheck(session, session.authenticated, TRUE, <<>>, FALSE)

\* check_password(). Without a secrets file st.secrets.get either raises or
\* gives the default {}, as the installed streamlit has it: `raises` is
\* that outcome.
check_password(sec, session, inp, raises) ==
    IF session.authenticated THEN PasswordCheck(session, TRUE, FALSE, <<>>, FALSE)
    ELSE IF ~sec.file /\ raises THEN PasswordCheck(session, FALSE, FALSE, <<>>, TRUE)
    ELSE
        LET valid == ValidPair(sec) IN
        IF inp.login_btn
        THEN IF inp.username = valid.username /\ inp.password = valid.password
             THEN PasswordCheck([session EXCEPT !.authenticated = TRUE], TRUE, TRUE,
                                <<"success">>, FALSE)
             ELSE PasswordCheck(session, session.authenticated, TRUE, <<"error">>, FALSE)
        ELSE PasswordCheck(session, session.authenticated, TRUE, <<>>, FALSE)

\* main() up to the call of the view: the session state it leaves and how
\* the run went on
main(sec, session, inp, raises) ==
    LET checked == check_password(sec, session, inp, raises)
        run(kind, view) ==
            [kind |-> kind, login_form |-> checked.login_form,
             messages |-> checked.messages, view |-> view]
    IN  [session_state |-> checked.session_state,
         run |-> IF checked.raised THEN run("exception", "none")
                 ELSE IF ~checked.result THEN run("stopped", "none")
                 ELSE IF inp.izbor = PortalChoice THEN run("view", "show_ah_stat_portal")
                 ELSE run("view", "show_vin_search")]

\* ------------------------------------------------------- inputs of main

\* st.secrets: no secrets file, a file without [auth] or without its keys,
\* a file with one of the two keys, with an empty username, with both keys
SecretsKinds ==
    {NoSecrets} \cup
    [file : {TRUE}, username : {NoneVal, "", "meva"}, password : {NoneVal, "tajna"}]

\* what a run is given: the login form when the session is not logged in
\* (the radio, first drawn in that run, has its first option), the radio
\* alone when it is
MainInputs(session) ==
    IF session.authenticated
    THEN [username : {""}, password : {""}, login_btn : {FALSE},
          izbor : {PortalChoice, VinChoice}]
    ELSE [username : {"", "admin", "meva"}, password : {"", "admin", "tajna"},
          login_btn : BOOLEAN, izbor : {PortalChoice}]

\* data/ of the session
MainDataDir == <<PortalJson, OtherFile>>
MainVinDir ==
    [files |-> <<StatFile(TRUE, TRUE, FALSE, TRUE, <<StatRow(Id123, NaNCell, VinUpper)>>)>>,
     org |-> [kind |-> "ok", rows |-> <<OrgRow(Id123, "Acme")>>]]

\* the choices in the portal view: all organizations from day 1 on
MainPortalInputs ==
    {inp \in PortalInputs(MainDataDir) : inp.selected_org = AllOrgs /\ inp.d_from = 1}

\* the choices in the VIN view
MainVinInputs ==
    {inp \in VinInputs : inp.last_vin = <<>> /\ ~inp.clear_clicked
                         /\ inp.vin \in {<<>>, VinUpper}}

InitMain ==
    /\ phase = "input"
    /\ secrets \in SecretsKinds
    /\ session_state = NewSession
    /\ main_input = NoMainInput
    /\ main_run = NoMainRun
    /\ dataDir = MainDataDir
    /\ portal_input = NoPortalInput
    /\ portal = NoPortal
    /\ vinDir = MainVinDir
    /\ vinLoad = NoLoad
    /\ vin_input = NoInput
    /\ page = NoPage
    /\ StatsIdle
    /\ AhIdle

\* one run of main() in the session: the login gate, then the chosen view
Main ==
    /\ phase \in {"input", "main"}
    /\ phase' = "main"
    /\ \E inp \in MainInputs(session_state), raises \in BOOLEAN :
          LET ran == main(secrets, session_state, inp, raises) IN
          /\ main_input' = inp
          /\ main_run' = ran.run
          /\ session_state' = ran.session_state
          /\ IF ran.run.view = "show_ah_stat_portal"
             THEN /\ \E pin \in MainPortalInputs :
                        /\ portal_input' = pin
                        /\ portal' = show_ah_stat_portal(dataDir, pin)
                  /\ UNCHANGED <<vinLoad, vin_input, page>>
             ELSE IF ran.run.view = "show_vin_search"
             THEN /\ \E vin \in MainVinInputs :
                        /\ vin_input' = vin
                        /\ vinLoad' = load_vin_data(vinDir)
                        /\ page' = show_vin_search(vinDir, vinLoad', vin)
                  /\ UNCHANGED <<portal_input, portal>>
             ELSE UNCHANGED <<portal_input, portal, vinLoad, vin_input, page>>
    /\ UNCHANGED <<secrets, dataDir, vinDir, statsVars, ahVars>>

NextMain == Main

SpecMain == InitMain /\ [][NextMain]_vars

\* ------------------------------------------------------------------ claims

StatsDone == phase = "calculate_stats"

\* the record at place i passes the organization filter
OrgOk(i) == org_name = "" \/ data[i].organization_name = org_name

\* the record at place i has a timestamp that parses
TsOk(i) == ~TsFalsy(data[i].time_stamp) /\ parse_timestamp(data[i].time_stamp).ok

\* the calendar date written in a timestamp text that parses
WrittenDate(ts_str) == Strip(ts_str)[1].v

\* the places of the records that pass the organization and the date filter
Kept == {i \in 1..Len(data) :
            /\ OrgOk(i)
            /\ TsOk(i)
            /\ d_from <= WrittenDate(data[i].time_stamp)
            /\ WrittenDate(data[i].time_stamp) <= d_to}

\* the pair (query_vin, raw time_stamp string) of the record at place i
Pair(i) == <<data[i].query_vin, data[i].time_stamp>>

\* the kept places that are the first of their pair
FirstOfPair == {i \in Kept : \A j \in Kept : j < i => Pair(j) # Pair(i)}

\* the k-th smallest member of a set of numbers
KthSmallest(S, k) == CHOOSE x \in S : Cardinality({y \in S : y < x}) = k - 1

\* C1: export_rows holds exactly one row per distinct (query_vin, time_stamp
\* string) pair among the records that pass the filters, built from the first
\* such record, in first-occurrence order; records with one VIN and different
\* timestamp strings both appear.
C1_DedupOnVinAndRawTimestamp ==
    StatsDone =>
        /\ Len(stats.export_rows) = Cardinality(FirstOfPair)
        /\ \A k \in 1..Len(stats.export_rows) :
              stats.export_rows[k] = RowOf(data[KthSmallest(FirstOfPair, k)])
        /\ \A i, j \in Kept :
              (data[i].query_vin = data[j].query_vin
                   /\ data[i].time_stamp # data[j].time_stamp)
              => \E k, l \in 1..Len(stats.export_rows) :
                    /\ k # l
                    /\ stats.export_rows[k].query_vin = data[i].query_vin
                    /\ stats.export_rows[k].time_stamp = data[i].time_stamp
                    /\ stats.export_rows[l].query_vin = data[j].query_vin
                    /\ stats.export_rows[l].time_stamp = data[j].time_stamp

\* a run with a dropped duplicate, and with two kept records of one VIN whose
\* different timestamp texts parse to the same instant, both exported
C1_Witness ==
    /\ StatsDone
    /\ \E i, j \in Kept : i < j /\ Pair(i) = Pair(j)
    /\ \E i, j \in Kept :
          /\ data[i].query_vin = data[j].query_vin
          /\ data[i].time_stamp # data[j].time_stamp
          /\ parse_timestamp(data[i].time_stamp).date
                 = parse_timestamp(data[j].time_stamp).date
          /\ parse_timestamp(data[i].time_stamp).utcoffset
                 = parse_timestamp(data[j].time_stamp).utcoffset
    /\ Len(stats.export_rows) = 2

\* is there an export row for the pair of the record at place i
HasRowFor(i) ==
    \E k \in 1..Len(stats.export_rows) :
        /\ stats.export_rows[k].query_vin = data[i].query_vin
        /\ stats.export_rows[k].time_stamp = data[i].time_stamp

\* C2: the date filter is inclusive on both bounds: a record that passes the
\* organization filter and parses has an export row if and only if
\* d_from <= date <= d_to, and no export row is dated outside [d_from, d_to].
C2_DateFilterInclusive ==
    StatsDone =>
        /\ \A i \in 1..Len(data) :
              (OrgOk(i) /\ TsOk(i)) =>
                  (HasRowFor(i) <=>
                      (d_from <= WrittenDate(data[i].time_stamp)
                           /\ WrittenDate(data[i].time_stamp) <= d_to))
        /\ \A k \in 1..Len(stats.export_rows) :
              /\ d_from <= WrittenDate(stats.export_rows[k].time_stamp)
              /\ WrittenDate(stats.export_rows[k].time_stamp) <= d_to

\* d_from = d_to = D with records the day before D, on D and the day after D:
\* only the record of D is exported
C2_Witness ==
    /\ StatsDone
    /\ d_from = d_to
    /\ \E i, j, k \in 1..Len(data) :
          /\ OrgOk(i) /\ TsOk(i) /\ WrittenDate(data[i].time_stamp) = d_from - 1
          /\ OrgOk(j) /\ TsOk(j) /\ WrittenDate(data[j].time_stamp) = d_from
          /\ OrgOk(k) /\ TsOk(k) /\ WrittenDate(data[k].time_stamp) = d_to + 1
          /\ ~HasRowFor(i) /\ HasRowFor(j) /\ ~HasRowFor(k)
    /\ Len(stats.export_rows) = 1

\* the export rows dated D
RowsOfDay(D) ==
    {k \in 1..Len(stats.export_rows) :
        WrittenDate(stats.export_rows[k].time_stamp) = D}

RECURSIVE SumCounts(_)
SumCounts(c) == IF c = <<>> THEN 0 ELSE Head(c).n + SumCounts(Tail(c))

\* every day a record of the inputs can be dated
AllDays == 0..(MaxDay + 2)

\* C3: per_day[D] is the number of export rows dated D (the date as written in
\* the timestamp), for every day D; the counts sum to len(export_rows).
C3_PerDayCountsExportRows ==
    StatsDone =>
        /\ \A D \in AllDays :
              CounterGet(stats.per_day, D) = Cardinality(RowsOfDay(D))
        /\ \A e \in 1..Len(stats.per_day) : stats.per_day[e].k \in AllDays
        /\ SumCounts(stats.per_day) = Len(stats.export_rows)

\* a record given twice is one row and counts once toward its day, next to a
\* second day with a count
C3_Witness ==
    /\ StatsDone
    /\ \E i, j \in Kept :
          /\ i < j
          /\ Pair(i) = Pair(j)
          /\ CounterGet(stats.per_day, WrittenDate(data[i].time_stamp)) = 1
    /\ Len(stats.per_day) = 2

\* the VINs with at least one surviving unique record, F being FirstOfPair
SurvVins(F) == {data[i].query_vin : i \in F} \ {NoneVal, ""}

\* the number of surviving unique records of each VIN
SurvCount(F) ==
    [v \in SurvVins(F) |-> Cardinality({i \in F : data[i].query_vin = v})]

\* the place in `data` of the first surviving record of each VIN
FirstMet(F) ==
    [v \in SurvVins(F) |->
        CHOOSE i \in F :
            /\ data[i].query_vin = v
            /\ \A j \in F : data[j].query_vin = v => i <= j]

\* v ranks ahead of w: more surviving records, or as many and met first
RanksAhead(count, first, v, w) ==
    \/ count[v] > count[w]
    \/ count[v] = count[w] /\ first[v] < first[w]

\* C4: top_vins has at most 5 entries, each a VIN with at least one surviving
\* unique record and its count of such records, in descending order of count,
\* equal counts in the order the VINs were first met; every VIN left out ranks
\* behind every entry.
C4_TopVins ==
    StatsDone =>
        LET top == stats.top_vins
            F == FirstOfPair
            vins == SurvVins(F)
            count == SurvCount(F)
            first == FirstMet(F)
        IN
        /\ Len(top) <= 5
        /\ Len(top) = (IF Cardinality(vins) < 5 THEN Cardinality(vins) ELSE 5)
        /\ \A e \in 1..Len(top) :
              /\ top[e].k \in vins
              /\ top[e].n = count[top[e].k]
              /\ top[e].n >= 1
        /\ \A e, f \in 1..Len(top) :
              e < f => /\ top[e].n >= top[f].n
                       /\ RanksAhead(count, first, top[e].k, top[f].k)
        /\ \A v \in vins :
              (\A e \in 1..Len(top) : top[e].k # v)
              => \A e \in 1..Len(top) : RanksAhead(count, first, top[e].k, v)

\* six VINs survive, five are listed; the first entry has two records and was
\* not the first VIN met, and a VIN left out has as many records as the last
\* entry
C4_Witness ==
    /\ StatsDone
    /\ Len(stats.top_vins) = 5
    /\ stats.top_vins[1].n = 2
    /\ LET F == FirstOfPair
           vins == SurvVins(F)
           count == SurvCount(F)
           first == FirstMet(F)
       IN /\ Cardinality(vins) >= 6
          /\ first[stats.top_vins[1].k] > first[stats.top_vins[2].k]
          /\ \E v \in vins :
                /\ \A e \in 1..5 : stats.top_vins[e].k # v
                /\ count[v] = stats.top_vins[5].n

\* ------------------------------------------------ claims, statistics path

LoadDone == phase = "load_vin_data"

\* a failure condition of section 4.3: no statistics file, a statistics file
\* without CUSTOMERID, Organizations.xlsx missing or without CODE, a file that
\* cannot be read
FailureCondition(dir) ==
    \/ dir.files = <<>>
    \/ \E i \in 1..Len(dir.files) : ~dir.files[i].readable \/ ~dir.files[i].hasCustomerId
    \/ dir.org.kind \in {"absent", "unreadable", "nocode"}

\* c left-padded with '0' to 9 characters, unchanged from 9 characters on
RECURSIVE Padded9(_)
Padded9(c) == IF Len(c) >= 9 THEN c ELSE Padded9(<<"0">> \o c)

\* the statistics rows of data/ that carry an identifier, with their year
StatRowPlaces(dir) ==
    UNION {{<<i, j>> : j \in 1..Len(dir.files[i].rows)} : i \in 1..Len(dir.files)}

\* C5: on load every identifier shorter than 9 characters is left-padded with
\* '0' to exactly 9, and one of 9 or more characters is left unchanged: the
\* loaded dataset holds, for every statistics row, its padded identifier.
C5_CodesPaddedOnLoad ==
    (LoadDone /\ ~FailureCondition(vinDir)) =>
        /\ vinLoad.kind = "returned"
        /\ \A p \in StatRowPlaces(vinDir) :
              LET raw == vinDir.files[p[1]].rows[p[2]].CUSTOMERID IN
              raw # NaNCell =>
                  \E r \in 1..Len(vinLoad.df) :
                      /\ vinLoad.df[r].row.YEAR = YearOf(p[1])
                      /\ vinLoad.df[r].row.CUSTOMERID = Padded9(raw)
        /\ \A r \in 1..Len(vinLoad.df) : Len(vinLoad.df[r].row.CUSTOMERID) >= 9

\* the identifier of a cell as section 4.2 normalizes it
SpecCode(cell) == Padded9(IF cell = NaNCell THEN <<>> ELSE cell)

\* the number of organization rows with the normalized code of a statistics row
MatchCount(dir, p) ==
    Cardinality({o \in 1..Len(dir.org.rows) :
        SpecCode(dir.org.rows[o].CODE) = SpecCode(dir.files[p[1]].rows[p[2]].CUSTOMERID)})

\* the rows of the dataset that come from the statistics row at place p
RowsFrom(df, dir, p) ==
    {r \in 1..Len(df) :
        /\ df[r].row.YEAR = YearOf(p[1])
        /\ df[r].row.VINNUMBER = dir.files[p[1]].rows[p[2]].VINNUMBER}

\* C6: the merge is a left outer join on the normalized identifier: a
\* statistics row is in the output max(1, m) times, m its number of
\* organization rows, with null organization fields when m = 0; so the output
\* has at least as many rows as the statistics, and as many exactly when no
\* identifier has two organization rows.
C6_LeftOuterJoin ==
    (LoadDone /\ ~FailureCondition(vinDir)) =>
        /\ vinLoad.kind = "returned"
        /\ \A p \in StatRowPlaces(vinDir) :
              LET m == MatchCount(vinDir, p) IN
              /\ Cardinality(RowsFrom(vinLoad.df, vinDir, p)) = (IF m = 0 THEN 1 ELSE m)
              /\ m = 0 => \A r \in RowsFrom(vinLoad.df, vinDir, p) :
                              vinLoad.df[r].NAME = NaNCell
        /\ Len(vinLoad.df) >= Cardinality(StatRowPlaces(vinDir))
        /\ (Len(vinLoad.df) = Cardinality(StatRowPlaces(vinDir)))
              <=> (\A p \in StatRowPlaces(vinDir) : MatchCount(vinDir, p) <= 1)

SearchDone == phase = "show_vin_search"

\* the run searches: a button or a changed text, a text that is not blank
Searches(input) ==
    /\ ~input.clear_clicked
    /\ input.search_clicked \/ input.last_vin # input.vin
    /\ StripBlanks(input.vin) # <<>>

\* C7: the result set of a search is exactly the merged rows whose VINNUMBER
\* equals the query ignoring letter case; a row without a VIN never matches.
C7_VinLookupExactIgnoringCase ==
    (SearchDone /\ ~FailureCondition(vinDir) /\ HasVinColumn(vinDir)
        /\ Searches(vin_input)) =>
        /\ vinLoad.kind = "returned"
        /\ page.kind \in {"results", "no_results"}
        /\ {page.results[k] : k \in 1..Len(page.results)}
              = {vinLoad.df[r] : r \in
                    {r \in 1..Len(vinLoad.df) :
                        /\ vinLoad.df[r].row.VINNUMBER # NaNCell
                        /\ Upper(vinLoad.df[r].row.VINNUMBER)
                               = Upper(StripBlanks(vin_input.vin))}}

\* C8: every failure condition makes load_vin_data return no data and an error
\* message, and it returns a dataset only with no error.
C8_LoadFailuresReturnError ==
    LoadDone =>
        /\ vinLoad.kind = "returned"
        /\ FailureCondition(vinDir) => (vinLoad.df = NoDf /\ vinLoad.err # NoErr)
        /\ ~FailureCondition(vinDir) => vinLoad.err = NoErr

\* C9: a statistics row whose CUSTOMERID is missing gets the code "000000000".
C9_MissingCodeIsAllZero ==
    (LoadDone /\ ~FailureCondition(vinDir)) =>
        \A p \in StatRowPlaces(vinDir) :
            vinDir.files[p[1]].rows[p[2]].CUSTOMERID = NaNCell =>
                /\ vinLoad.kind = "returned"
                /\ \E r \in 1..Len(vinLoad.df) :
                      /\ vinLoad.df[r].row.YEAR = YearOf(p[1])
                      /\ vinLoad.df[r].row.CUSTOMERID
                             = <<"0", "0", "0", "0", "0", "0", "0", "0", "0">>

\* ------------------------------------------------- claims, query-log loader

AhDone == phase = "load_ah_data"

\* the file is unreadable or malformed: JSON that cannot be read or parsed,
\* JSON that is not a list, a CSV that fails while being read
FileFails(f) ==
    /\ f.isfile
    /\ \/ f.ext = "json" /\ f.kind \in {"unreadable", "notlist"}
       \/ f.ext = "csv" /\ f.failAt # 0

\* C10 as stated: when a selected file is unreadable or malformed,
\* load_ah_data returns no records at all.
C10_FailedFileAbortsLoad ==
    (AhDone /\ \E i \in 1..Len(ahFiles) : FileFails(ahFiles[i]))
        => ahLoad.data = <<>>

\* a JSON record the loader keeps: its timestamp is there and parses
JsonUsable(rec) == ~TsFalsy(rec.time_stamp) /\ parse_timestamp(rec.time_stamp).ok

\* a CSV row the loader keeps: a VIN and an order date that matches
CsvUsable(row) ==
    /\ row.vin.text \notin {NoneVal, ""}
    /\ row.order_date.text \notin {NoneVal, ""}
    /\ row.order_date.day >= 1

JsonTag(rec) == <<rec.user_id, rec.query_vin>>
CsvTag(row) == <<row.order_client.text, row.vin.text>>

RECURSIVE JsonTags(_)
JsonTags(recs) ==
    IF recs = <<>> THEN <<>>
    ELSE (IF JsonUsable(Head(recs)) THEN <<JsonTag(Head(recs))>> ELSE <<>>)
         \o JsonTags(Tail(recs))

RECURSIVE CsvTags(_)
CsvTags(rows) ==
    IF rows = <<>> THEN <<>>
    ELSE (IF CsvUsable(Head(rows)) THEN <<CsvTag(Head(rows))>> ELSE <<>>)
         \o CsvTags(Tail(rows))

\* (user, VIN) of the records one file gives: none from a JSON file that
\* fails, the rows ahead of the failure from a CSV that fails
FileTags(f) ==
    IF ~f.isfile THEN <<>>
    ELSE IF f.ext = "json" THEN (IF FileFails(f) THEN <<>> ELSE JsonTags(f.recs))
    ELSE CsvTags(IF f.failAt = 0 THEN f.rows ELSE SubSeq(f.rows, 1, f.failAt - 1))

RECURSIVE AllTags(_)
AllTags(files) ==
    IF files = <<>> THEN <<>> ELSE FileTags(Head(files)) \o AllTags(Tail(files))

\* C10 (amended): a file that is unreadable or malformed is skipped with a
\* warning and the load goes on: load_ah_data returns the records of the
\* other files, and the rows a failing CSV gave before it failed, in file
\* order, with one warning per failed file.
C10_FailedFileIsSkipped ==
    AhDone =>
        /\ ahLoad.kind = "returned"
        /\ [i \in 1..Len(ahLoad.data) |->
               <<ahLoad.data[i].user_id, ahLoad.data[i].query_vin>>] = AllTags(ahFiles)
        /\ Len(ahLoad.warnings)
               = Cardinality({i \in 1..Len(ahFiles) : FileFails(ahFiles[i])})

\* a JSON file that cannot be read next to a CSV that fails at its second
\* row: the CSV's first row is returned
C10_Witness ==
    /\ AhDone
    /\ \E i, j \in 1..Len(ahFiles) :
          /\ ahFiles[i].ext = "json" /\ FileFails(ahFiles[i])
          /\ ahFiles[j].ext = "csv" /\ ahFiles[j].failAt = 2
    /\ Len(ahLoad.data) = 1
    /\ Len(ahLoad.warnings) = 2

\* the records of a JSON file that enter the id-to-name mapping: the file
\* loads, the record is kept, and it has an organization id and a name
Contrib(f) ==
    IF f.isfile /\ f.ext = "json" /\ ~FileFails(f)
    THEN SelectSeq(f.recs, LAMBDA r : /\ JsonUsable(r)
                                      /\ r.organization_id \notin {NoneVal, ""}
                                      /\ r.organization_name \notin {NoneVal, ""})
    ELSE <<>>

\* those records of the files ahead of the j-th, in file order
RECURSIVE ContribBefore(_, _)
ContribBefore(files, j) ==
    IF j <= 1 THEN <<>>
    ELSE ContribBefore(files, j - 1) \o Contrib(files[j - 1])

\* the name the files ahead of the j-th give the organization: the first
\* name seen for the id, or the id itself when no file ahead names it
ExpectedName(files, j, oid) ==
    LET s == ContribBefore(files, j)
        at == {i \in 1..Len(s) : s[i].organization_id = oid}
    IN  IF at = {} THEN oid
        ELSE s[CHOOSE i \in at : \A k \in at : i <= k].organization_name

\* the rows of a CSV file that become records
LoadedRows(f) ==
    SelectSeq(IF f.failAt = 0 THEN f.rows ELSE SubSeq(f.rows, 1, f.failAt - 1),
              CsvUsable)

\* C11: a record read from a CSV file carries the name that the files
\* processed before that CSV file (in sorted order) map its organization id
\* to, the first name seen for the id, and the id itself when they map it to
\* nothing; a JSON file processed later does not change it.
C11_CsvNameResolvedWhenRead ==
    AhDone =>
        \A j \in 1..Len(ahFiles) :
            (ahFiles[j].isfile /\ ahFiles[j].ext = "csv") =>
                LET off == Len(AllTags(SubSeq(ahFiles, 1, j - 1)))
                    rows == LoadedRows(ahFiles[j])
                IN  \A k \in 1..Len(rows) :
                        LET rec == ahLoad.data[off + k]
                            oid == CellText(rows[k].organisation)
                        IN  /\ rec.organization_id = oid
                            /\ rec.organization_name = ExpectedName(ahFiles, j, oid)

\* a JSON file naming o1, then a CSV with rows of o1 and o9, then a JSON
\* file naming o9: the first CSV record has the mapped name, the second
\* keeps its id as its name
C11_Witness ==
    /\ AhDone
    /\ Len(ahFiles) = 3
    /\ ahFiles[1].ext = "json" /\ ahFiles[2].ext = "csv" /\ ahFiles[3].ext = "json"
    /\ \E i \in 1..Len(ahLoad.data) :
          /\ ahLoad.data[i].response_type = NoneVal
          /\ ahLoad.data[i].organization_id = "o1"
          /\ ahLoad.data[i].organization_name = "Acme"
    /\ \E i, j \in 1..Len(ahLoad.data) :
          /\ i < j
          /\ ahLoad.data[i].response_type = NoneVal
          /\ ahLoad.data[i].organization_id = "o9"
          /\ ahLoad.data[i].organization_name = "o9"
          /\ ahLoad.data[j].organization_id = "o9"
          /\ ahLoad.data[j].organization_name = "Nine"

\* ------------------------------------------------- claims, statistics portal

PortalDone == phase = "show_ah_stat_portal"

\* the run got as far as the date inputs: files are listed, some are
\* selected and they hold records
DatesAsked ==
    LET all_files == list_data_files(dataDir)
        selected_files == SelectedFiles(all_files, portal_input.selected, 1)
    IN  selected_files # <<>> /\ load_ah_data(selected_files).data # <<>>

\* C12: in every run of show_ah_stat_portal, calculate_stats is called only
\* with d_from <= d_to, and on the dates the user chose; when d_from > d_to
\* the run shows an error message and stops: no call of calculate_stats, no
\* metric, no table, no download, no charts.
C12_InvertedRangeRejected ==
    PortalDone =>
        /\ \A i \in 1..Len(portal.calls) :
              /\ portal.calls[i].d_from <= portal.calls[i].d_to
              /\ portal.calls[i].d_from = portal_input.d_from
              /\ portal.calls[i].d_to = portal_input.d_to
        /\ (DatesAsked /\ portal_input.d_from > portal_input.d_to) =>
              /\ portal.kind = "date_error"
              /\ portal.messages # <<>>
              /\ portal.messages[Len(portal.messages)] = "error"
              /\ portal.calls = <<>>
              /\ portal.metric = 0
              /\ portal.table = <<>>
              /\ portal.download = <<>>
              /\ ~portal.charts

\* the button is pressed on an inverted range over records that lie inside
\* it either way round, and the run ends at the error
C12_Witness ==
    /\ PortalDone
    /\ DatesAsked
    /\ portal_input.clicked
    /\ portal_input.d_from > portal_input.d_to
    /\ portal.kind = "date_error"
    /\ calculate_stats(load_ah_data(SelectedFiles(list_data_files(dataDir),
                                                  portal_input.selected, 1)).data,
                       "", portal_input.d_to, portal_input.d_from).export_rows # <<>>

\* the button is pressed on a range in order and calculate_stats is called
C12_WitnessComputed ==
    /\ PortalDone
    /\ portal_input.d_from < portal_input.d_to
    /\ Len(portal.calls) = 1
    /\ portal.download # <<>>

\* ------------------------------------------------------- claims, login gate

\* the pair a login has to give: the configured username and password when
\* both are configured (present and not empty), admin/admin when not
ConfiguredPair ==
    IF secrets.username \notin {NoneVal, ""} /\ secrets.password \notin {NoneVal, ""}
    THEN <<secrets.username, secrets.password>>
    ELSE <<"admin", "admin">>

\* C13: over the runs of a session, a run enters show_ah_stat_portal or
\* show_vin_search only with the session's authenticated flag true; the
\* flag becomes true only in a run whose login form was submitted with the
\* configured username and password (admin/admin when none are configured);
\* and a flag that is true stays true.
C13_LoginGate ==
    [][/\ main_run'.view # "none" => session_state'.authenticated
       /\ (~session_state.authenticated /\ session_state'.authenticated) =>
              /\ main_input'.login_btn
              /\ <<main_input'.username, main_input'.password>> = ConfiguredPair
       /\ session_state.authenticated => session_state'.authenticated]_vars

\* a session with configured credentials that was logged in with them and
\* whose last run, without a login form, entered the VIN search
C13_Witness ==
    /\ phase = "main"
    /\ secrets.username = "meva" /\ secrets.password = "tajna"
    /\ session_state.authenticated
    /\ ~main_run.login_form
    /\ main_run.view = "show_vin_search"
    /\ page.kind # "none"
    /\ portal.kind # "none"

\* a refused submission: the form was submitted with the right username and
\* a wrong password, and the run stopped at the login
C13_WitnessRefused ==
    /\ phase = "main"
    /\ main_input.login_btn
    /\ main_input.username = ConfiguredPair[1]
    /\ main_input.password # ConfiguredPair[2]
    /\ ~session_state.authenticated
    /\ main_run.kind = "stopped"
    /\ main_run.view = "none"

====
